---- MODULE Spec2Model ----
(***************************************************************************)
(* persway: the event loop of main (src/src/main.rs), the signal task      *)
(* handle_signals, the autolayout engine and the workspace naming engine.  *)
(*                                                                         *)
(* Strings are sequences of one-character strings.  Option<T> is a         *)
(* sequence of length at most one: None is <<>> and Some(x) is <<x>>.      *)
(***************************************************************************)
EXTENDS Integers, Sequences, FiniteSets, TLC

VARIABLES
    cfg,        \* Cli: the parsed command line, read once
    pc,         \* position of the main task
    prev,       \* main's `prev`: Option<container id>
    event,      \* the WindowEvent being handled, with the value of prev when it was read
    trace,      \* the steps run for `event` so far, each with the commands it sent
    wsName,     \* window manager: name of the focused workspace
    lastFocus,  \* history: id of the most recent fully handled Focus event
    closedSince,\* history: ids of the Close events handled since that Focus event
    sigpc,      \* position of the handle_signals task
    sigQueue,   \* termination signals delivered and not yet taken by the task
    sigClosed,  \* handle.close() has been called
    sigSent,    \* commands sent on the signal task's own connection
    exit,       \* Option<[status, by]>: how the process ended
    stream,     \* what the connections and the event stream have done so far
    probe       \* argument and results of a direct call of one engine

vars == <<cfg, pc, prev, event, trace, wsName, lastFocus, closedSince,
          sigpc, sigQueue, sigClosed, sigSent, exit, stream, probe>>

mainVars == <<cfg, pc, prev, event, trace, wsName, lastFocus, closedSince,
              sigpc, sigQueue, sigClosed, sigSent, exit, stream>>

---------------------------------------------------------------------------
(* Bounds *)

\* container ids are FirstId .. FirstId + NumIds - 1 (one and two digits)
FirstId == 9
NumIds == 2
\* termination signals waiting in the queue of the signal task
MaxSignals == 1
\* longest workspace name and application identity of a direct rename call
MaxNameLen == 3
MaxAppLen == 2
\* depth of the container trees and largest rectangle side
MaxDepth == 2
MaxDim == 2

ConIds == FirstId .. (FirstId + NumIds - 1)

---------------------------------------------------------------------------
(* Option and strings *)

None == <<>>
Some(x) == <<x>>
IsSome(o) == o # <<>>
Unwrap(o) == o[1]

SeqsUpTo(S, n) == UNION {[1..k -> S] : k \in 0..n}

DigitChar(d) == <<"0", "1", "2", "3", "4", "5", "6", "7", "8", "9">>[d + 1]

\* Display of a non-negative integer, as format!("{id}") prints it
RECURSIVE Digits(_)
Digits(n) == IF n < 10 THEN <<DigitChar(n)>>
             ELSE Digits(n \div 10) \o <<DigitChar(n % 10)>>

\* one character U+2102, DOUBLE-STRUCK CAPITAL C: an upper-case letter
\* (char::is_uppercase) for which Unicode defines no lower-case form
CapNoLower == "U+2102"

\* char::is_uppercase on the alphabet of the model
IsUpper(c) == c \in {"A", "B", CapNoLower}

\* str::to_lowercase on the alphabet of the model: a character without a
\* lower-case mapping is kept
LowerChar(c) == CASE c = "A" -> "a"
                  [] c = "B" -> "b"
                  [] OTHER -> c

ToLowercase(s) == [i \in 1..Len(s) |-> LowerChar(s[i])]

\* str::trim_start_matches(c) and str::trim_end_matches(c)
RECURSIVE TrimStartMatches(_, _)
TrimStartMatches(s, c) ==
    IF s # <<>> /\ Head(s) = c THEN TrimStartMatches(Tail(s), c) ELSE s

RECURSIVE TrimEndMatches(_, _)
TrimEndMatches(s, c) ==
    IF s # <<>> /\ s[Len(s)] = c
    THEN TrimEndMatches(SubSeq(s, 1, Len(s) - 1), c) ELSE s

\* s.split(c).next(): the part of s before its first c, all of s without one
RECURSIVE SplitFirst(_, _)
SplitFirst(s, c) ==
    IF s = <<>> \/ Head(s) = c THEN <<>>
    ELSE <<Head(s)>> \o SplitFirst(Tail(s), c)

IsPrefix(p, s) == Len(p) <= Len(s) /\ SubSeq(s, 1, Len(p)) = p

---------------------------------------------------------------------------
(* Command texts *)

StrConId == <<"[", "c", "o", "n", "_", "i", "d", "=">>
StrRename == <<"r", "e", "n", "a", "m", "e", " ", "w", "o", "r", "k", "s", "p", "a", "c", "e", " ", "t", "o", " ">>
StrSplitV == <<"s", "p", "l", "i", "t", " ", "v">>
StrSplitH == <<"s", "p", "l", "i", "t", " ", "h">>

\* the hook templates a run may be configured with
FocusTemplate == <<"o", "p", "a", "c", "i", "t", "y", " ", "1">>
LeaveTemplate == <<"m", "a", "r", "k", " ", "-", "-", "a", "d", "d", " ", "_", "p", "r", "e", "v">>
ExitTemplate == <<"[", "t", "i", "l", "i", "n", "g", "]", " ", "o", "p", "a", "c", "i", "t", "y", " ", "1">>

\* format!("[con_id={id}] {}", window_focus_leave_cmd)
LeaveHookCmd(id, template) ==
    StrConId \o Digits(id) \o <<"]", " ">> \o template

\* format!("rename workspace to {}", name)
RenameCmd(name) == StrRename \o name

---------------------------------------------------------------------------
(* Workspace naming engine: rename_workspace *)

\* variant: the whole current name is taken as the prefix
WsNumFullName(name) == name

\* variant: the prefix ends at the last colon of the name, not the first
WsNumBeforeLast(name) ==
    IF \E i \in 1..Len(name) : name[i] = ":"
    THEN SubSeq(name, 1, (CHOOSE i \in 1..Len(name) :
                            name[i] = ":" /\ \A j \in (i+1)..Len(name) : name[j] # ":") - 1)
    ELSE name

\* current_ws.name.split(':').next()
WsNum(name) == SplitFirst(name, ":")

\* ws.find(|w| w.focused): the first focused workspace of the reply
RECURSIVE GetFocusedWorkspace(_)
GetFocusedWorkspace(wss) ==
    IF wss = <<>> THEN None
    ELSE IF Head(wss).focused THEN Some(Head(wss))
    ELSE GetFocusedWorkspace(Tail(wss))

\* variant: the class of the legacy window properties is taken first
AppNameClassFirst(ev) ==
    IF IsSome(ev.window_properties) /\ IsSome(Unwrap(ev.window_properties).class)
    THEN Unwrap(ev.window_properties).class
    ELSE ev.app_id

\* app_id.map_or_else(|| window_properties.and_then(|p| p.class.as_ref()), Some)
AppName(ev) ==
    IF IsSome(ev.app_id) THEN ev.app_id
    ELSE IF IsSome(ev.window_properties)
         THEN Unwrap(ev.window_properties).class
         ELSE None

\* variant: the hyphens at the end are kept
NormalizeStartOnly(app) == ToLowercase(TrimStartMatches(app, "-"))

\* app_name.trim_start_matches('-').trim_end_matches('-').to_lowercase()
Normalize(app) == ToLowercase(TrimEndMatches(TrimStartMatches(app, "-"), "-"))

\* variant: the name is the prefix alone, whatever the identity
NewNameNoApp(ws_num, app) == ws_num

\* format!("{}: {}", ws_num, normalized)
NewName(ws_num, app) == ws_num \o <<":", " ">> \o Normalize(app)

\* One call of rename_workspace.  reply is the answer to get_workspaces
\* (None: the query failed); sendOk is whether run_command returned Ok.
\* The result is what the caller sees and the commands handed to run_command.
RenameWorkspace(ev, reply, sendOk) ==
    IF reply = None THEN [res |-> "err", cmds |-> <<>>]
    ELSE LET found == GetFocusedWorkspace(Unwrap(reply)) IN
      IF found = None THEN [res |-> "err", cmds |-> <<>>]
      ELSE LET current_ws == Unwrap(found)
               ws_num == WsNum(current_ws.name)
               sent == IF sendOk THEN "ok" ELSE "err"
           IN IF current_ws.focus = <<>>
              THEN [res |-> sent, cmds |-> <<RenameCmd(ws_num)>>]
              ELSE LET app_name == AppName(ev) IN
                   IF IsSome(app_name)
                   THEN [res |-> sent,
                         cmds |-> <<RenameCmd(NewName(ws_num, Unwrap(app_name)))>>]
                   ELSE [res |-> "ok", cmds |-> <<>>]

\* The window manager's side of a rename command: the focused workspace takes
\* the text after "rename workspace to "; a command without a name is refused.
RenameArg(text) ==
    IF IsPrefix(StrRename, text)
    THEN SubSeq(text, Len(StrRename) + 1, Len(text)) ELSE <<>>

WmApply(name, cmds, accepted) ==
    IF cmds # <<>> /\ accepted /\ RenameArg(cmds[1]) # <<>>
    THEN RenameArg(cmds[1]) ELSE name

---------------------------------------------------------------------------
(* Autolayout engine: autolayout *)

(* A tree is the chain of nodes from the root downwards, the only nodes
   find_focused_as_ref can visit.  Node i+1 is a child of node i, held in
   its `nodes` or in its `floating_nodes` (attach); onFocus says whether
   node i's focus list starts with the id of node i+1.  percent is in
   hundredths. *)

\* variant: a focused child held in floating_nodes counts for the parent
TreePredAnyChild(tree, i, which) ==
    IF which = "focused" THEN tree[i].focused
    ELSE i < Len(tree) /\ tree[i + 1].focused

\* n.focused, and n.nodes.iter().any(|n| n.focused)
TreePred(tree, i, which) ==
    IF which = "focused" THEN tree[i].focused
    ELSE i < Len(tree) /\ tree[i + 1].attach = "nodes" /\ tree[i + 1].focused

\* Node::find_focused_as_ref from node i: the node itself when the predicate
\* holds, else the search goes on in the child heading the focus list
RECURSIVE FindFocusedAsRef(_, _, _)
FindFocusedAsRef(tree, i, which) ==
    IF TreePred(tree, i, which) THEN Some(i)
    ELSE IF i = Len(tree) \/ ~tree[i + 1].onFocus THEN None
    ELSE FindFocusedAsRef(tree, i + 1, which)

\* variant: a square node counts as tall
TallerOrEqual(rect) == rect.height >= rect.width

\* focused.rect.height > focused.rect.width
Taller(rect) == rect.height > rect.width

\* the decision of autolayout once both nodes are found: Option<command>
AutolayoutCmd(focused, parent) ==
    LET is_floating == focused.node_type = "floating_con"
        is_full_screen ==
            (IF IsSome(focused.percent) THEN Unwrap(focused.percent) ELSE 100) > 100
        is_stacked == parent.layout = "stacked"
        is_tabbed == parent.layout = "tabbed"
    IN IF ~is_floating /\ ~is_full_screen /\ ~is_stacked /\ ~is_tabbed
       THEN Some(IF Taller(focused.rect) THEN StrSplitV ELSE StrSplitH)
       ELSE None

\* One call of autolayout.  reply is the answer to get_tree (None: failed).
Autolayout(reply, sendOk) ==
    IF reply = None THEN [res |-> "err", cmds |-> <<>>]
    ELSE LET tree == Unwrap(reply)
             focused == FindFocusedAsRef(tree, 1, "focused")
             parent == FindFocusedAsRef(tree, 1, "parent")
         IN IF focused = None \/ parent = None
            THEN [res |-> "err", cmds |-> <<>>]
            ELSE LET cmd == AutolayoutCmd(tree[Unwrap(focused)], tree[Unwrap(parent)])
                 IN IF IsSome(cmd)
                    THEN [res |-> IF sendOk THEN "ok" ELSE "err", cmds |-> cmd]
                    ELSE [res |-> "ok", cmds |-> <<>>]

---------------------------------------------------------------------------
(* Inputs of the event loop *)

Configs == [autolayout : BOOLEAN,
            workspace_renaming : BOOLEAN,
            on_window_focus : {None, Some(FocusTemplate)},
            on_window_focus_leave : {None, Some(LeaveTemplate)},
            on_exit : {None, Some(ExitTemplate)}]

\* the window events the subscription may yield
\* a container keeps its application identity: the first has an app_id, the
\* second only a window class, any further one neither
AppIdOf(id) == IF id = FirstId THEN Some(<<"-", "A">>) ELSE None
WindowPropertiesOf(id) ==
    IF id = FirstId + 1 THEN Some([class |-> Some(<<"B">>)]) ELSE None

LoopEvents == {[change |-> ch, id |-> id, app_id |-> AppIdOf(id),
                window_properties |-> WindowPropertiesOf(id)] :
               ch \in {"Focus", "Close", "Other"}, id \in ConIds}

NoEvent == [change |-> "None", id |-> 0, app_id |-> None,
            window_properties |-> None, prevBefore |-> None]

\* answers to get_workspaces while the focused workspace is called name
OtherWs == [name |-> <<"1">>, focused |-> FALSE, focus |-> <<>>]
LoopWsReplies(name) ==
    {None, Some(<<OtherWs>>)}
    \cup {Some(<<OtherWs, [name |-> name, focused |-> TRUE, focus |-> f]>>)
          : f \in {<<>>, <<FirstId>>}}

\* a node of a tree, and the trees get_tree may answer with
PlainNode == [focused |-> FALSE, node_type |-> "con", layout |-> "splith",
              percent |-> None, rect |-> [width |-> 1, height |-> 1],
              attach |-> "nodes", onFocus |-> TRUE]

\* the chain of d nodes whose f-th node is the focused one (none when f = 0)
MkTree(d, f, ty, pct, w, h, att, onf, lay) ==
    [i \in 1..d |->
        IF i = f
        THEN [focused |-> TRUE, node_type |-> ty, layout |-> "splith",
              percent |-> pct, rect |-> [width |-> w, height |-> h],
              attach |-> att, onFocus |-> onf]
        ELSE IF i = f - 1 THEN [PlainNode EXCEPT !.layout = lay]
        ELSE PlainNode]

LoopTrees ==
    {MkTree(2, f, "con", None, 1, 2, att, TRUE, "splith") :
        f \in 0..2, att \in {"nodes", "floating_nodes"}}
    \cup {MkTree(2, 2, ty, None, wh[1], wh[2], "nodes", TRUE, lay) :
            ty \in {"con", "floating_con"}, wh \in {<<1, 2>>, <<2, 1>>},
            lay \in {"splith", "tabbed"}}

\* what get_workspaces answered, as rename_workspace reads it
WsShape(reply) ==
    IF reply = None THEN "no_reply"
    ELSE IF \A i \in 1..Len(reply[1]) : ~reply[1][i].focused THEN "no_workspace"
    ELSE IF \E i \in 1..Len(reply[1]) :
               reply[1][i].focused /\ reply[1][i].focus # <<>> THEN "windows"
    ELSE "empty"

\* what get_tree answered, as autolayout reads it
TreeShape(reply) ==
    IF reply = None THEN "no_reply"
    ELSE IF \A i \in 1..Len(reply[1]) : ~reply[1][i].focused THEN "no_focused"
    ELSE IF reply[1][1].focused THEN "root_focused"
    ELSE IF \E i \in 2..Len(reply[1]) :
               reply[1][i].focused /\ reply[1][i].attach = "floating_nodes"
         THEN "floating_child"
    ELSE "child"

---------------------------------------------------------------------------
(* Process exit *)

\* exit(0) of handle_signals and Ok(()) of main
ExitSuccess == 0
\* main returns Err
ExitFailure == 1
\* main panics: signals_task.await on a task that panicked
ExitPanic == 101
\* the process aborts on a panic of the signal task
ExitAbort == 134

Alive == exit = None
Exited(status, by) == Some([status |-> status, by |-> by])
---------------------------------------------------------------------------
(* The event loop: main *)

\* what main did at one step of an event: the step, its outcome, what it
\* sent, what the engine was answered (saw), and whether the send came
\* after the signal task had sent the exit hook
StepOn(name, res, cmds, saw) ==
    [step |-> name, res |-> res, cmds |-> cmds, saw |-> saw,
     afterHook |-> (cmds # <<>> /\ sigSent # <<>>)]
Step(name, res, cmds) == StepOn(name, res, cmds, "none")

\* variant: the error of a hook is printed and main goes on at `next`
HookErrLogged(next) == [pc |-> next, exit |-> None]

\* run_command(..).await?: the error of a hook leaves main as MainErr does
OnHookErr(next) == [pc |-> "done", exit |-> Exited(ExitFailure, "main_err")]

\* the `?` of main: the error leaves main and the process ends
MainErr == /\ pc' = "done"
           /\ exit' = Exited(ExitFailure, "main_err")

\* let mut commands = Connection::new().await?;
Connect ==
    /\ Alive /\ pc = "connect"
    /\ \/ pc' = "subscribe" /\ UNCHANGED <<exit, stream>>
       \/ MainErr /\ stream' = "connect_failed"
    /\ UNCHANGED <<cfg, prev, event, trace, wsName, lastFocus, closedSince,
                   sigpc, sigQueue, sigClosed, sigSent, probe>>

\* let mut events = Connection::new().await?.subscribe(&subs).await?;
\* let mut prev = None;
Subscribe ==
    /\ Alive /\ pc = "subscribe"
    /\ \/ pc' = "next_event" /\ prev' = None /\ stream' = "open" /\ UNCHANGED exit
       \/ MainErr /\ stream' = "connect_failed" /\ UNCHANGED prev
    /\ UNCHANGED <<cfg, event, trace, wsName, lastFocus, closedSince,
                   sigpc, sigQueue, sigClosed, sigSent, probe>>

\* variant: the enter hook runs before the leave hook
FocusOrderEnterFirst == <<"focus_enter", "focus_leave", "focus_rename", "focus_autolayout">>

\* variant: the Close arm runs on into the enter hook of the Focus arm
CloseOrderFallsThrough == <<"close_leave", "close_rename", "focus_enter">>

\* the order of the steps of a Focus event and of a Close event
FocusOrder == <<"focus_leave", "focus_enter", "focus_rename", "focus_autolayout">>
CloseOrder == <<"close_leave", "close_rename">>

\* the position after `here` in an order; the iteration ends after the last
After(order, here) ==
    LET i == CHOOSE k \in 1..Len(order) : order[k] = here
    IN IF i = Len(order) THEN "event_done" ELSE order[i + 1]

\* variant: every change other than Focus is handled as a Close
DispatchOtherAsClose(change) == CASE change = "Focus" -> FocusOrder[1]
                                  [] OTHER -> CloseOrder[1]

\* match event.change: where the handling of an event starts
Dispatch(change) == CASE change = "Focus" -> FocusOrder[1]
                      [] change = "Close" -> CloseOrder[1]
                      [] OTHER -> "event_done"

\* variant: a stream error leaves the loop like the end of the stream
StreamErrAsEnd == [pc |-> "close_handle", exit |-> None]

\* what main does when the stream yields an error (event?) and when it ends
OnStreamErr == [pc |-> "done", exit |-> Exited(ExitFailure, "main_err")]
OnStreamEnd == [pc |-> "close_handle", exit |-> None]

\* while let Some(event) = events.next().await { match event? { ... } }
NextEvent ==
    /\ Alive /\ pc = "next_event"
    /\ \/ \E e \in LoopEvents :
            /\ event' = [change |-> e.change, id |-> e.id, app_id |-> e.app_id,
                         window_properties |-> e.window_properties,
                         prevBefore |-> prev]
            /\ trace' = <<>>
            /\ pc' = Dispatch(e.change)
            /\ UNCHANGED <<exit, stream>>
       \/ /\ pc' = OnStreamErr.pc /\ exit' = OnStreamErr.exit
          /\ stream' = "failed"
          /\ UNCHANGED <<event, trace>>
       \/ /\ pc' = OnStreamEnd.pc /\ exit' = OnStreamEnd.exit
          /\ stream' = "ended"
          /\ UNCHANGED <<event, trace>>
    /\ UNCHANGED <<cfg, prev, wsName, lastFocus, closedSince,
                   sigpc, sigQueue, sigClosed, sigSent, probe>>

\* variant: the hook is scoped to the container of the event
LeaveTargetNew(p, ev) == Some(ev.id)

\* if let Some(id) = prev: the container the leave hook is scoped to
LeaveTarget(p, ev) == p

\* the leave hook of an event, if one is to be sent
LeaveHook(c, p, ev) ==
    IF IsSome(c.on_window_focus_leave) /\ IsSome(LeaveTarget(p, ev))
    THEN <<LeaveHookCmd(Unwrap(LeaveTarget(p, ev)), Unwrap(c.on_window_focus_leave))>>
    ELSE <<>>

\* run the focus leave hook; the next position is `next`
LeaveStep(here, next) ==
    /\ Alive /\ pc = here
    /\ LET cmds == LeaveHook(cfg, prev, event) IN
       \/ /\ cmds = <<>>
          /\ trace' = Append(trace, Step("leave", "off", cmds))
          /\ pc' = next /\ UNCHANGED exit
       \/ /\ cmds # <<>>
          /\ trace' = Append(trace, Step("leave", "ok", cmds))
          /\ pc' = next /\ UNCHANGED exit
       \/ /\ cmds # <<>>
          /\ trace' = Append(trace, Step("leave", "err", cmds))
          /\ pc' = OnHookErr(next).pc /\ exit' = OnHookErr(next).exit
    /\ UNCHANGED <<cfg, prev, event, wsName, lastFocus, closedSince,
                   sigpc, sigQueue, sigClosed, sigSent, stream, probe>>

FocusLeave == LeaveStep("focus_leave", After(FocusOrder, "focus_leave"))

\* if let Some(window_focus_cmd) = &on_window_focus { run_command(..).await?; }
FocusEnter ==
    /\ Alive /\ pc = "focus_enter"
    /\ \/ /\ cfg.on_window_focus = None
          /\ trace' = Append(trace, Step("enter", "off", <<>>))
          /\ pc' = After(FocusOrder, "focus_enter") /\ UNCHANGED exit
       \/ /\ IsSome(cfg.on_window_focus)
          /\ trace' = Append(trace, Step("enter", "ok", cfg.on_window_focus))
          /\ pc' = After(FocusOrder, "focus_enter") /\ UNCHANGED exit
       \/ /\ IsSome(cfg.on_window_focus)
          /\ trace' = Append(trace, Step("enter", "err", cfg.on_window_focus))
          /\ pc' = OnHookErr(After(FocusOrder, "focus_enter")).pc
          /\ exit' = OnHookErr(After(FocusOrder, "focus_enter")).exit
    /\ UNCHANGED <<cfg, prev, event, wsName, lastFocus, closedSince,
                   sigpc, sigQueue, sigClosed, sigSent, stream, probe>>

\* variant: the error of an engine leaves main as that of a hook does
PropagateEngineErr(next) == [pc |-> "done", exit |-> Exited(ExitFailure, "main_err")]

\* if let Err(e) = engine(..).await { println!(..) }: the error is printed
\* and main goes on at `next`
OnEngineErr(next) == [pc |-> next, exit |-> None]

\* variant: a rename of a Focus event that failed is run again
RetryOnErr(r, next) ==
    IF r.res = "err" /\ next = "focus_autolayout"
    THEN [pc |-> "focus_rename", exit |-> None]
    ELSE [pc |-> next, exit |-> None]

\* where main stands after an engine returned r
AfterEngine(r, next) ==
    IF r.res = "err" THEN OnEngineErr(next) ELSE [pc |-> next, exit |-> None]

\* if args.workspace_renaming { rename_workspace(&event, &mut commands) }
RenameStep(here, next) ==
    /\ Alive /\ pc = here
    /\ \/ /\ ~cfg.workspace_renaming
          /\ trace' = Append(trace, Step("rename", "off", <<>>))
          /\ pc' = next
          /\ UNCHANGED <<exit, wsName>>
       \/ /\ cfg.workspace_renaming
          /\ \E reply \in LoopWsReplies(wsName), sendOk \in BOOLEAN, accepted \in BOOLEAN :
               LET r == RenameWorkspace(event, reply, sendOk) IN
               /\ sendOk \/ r.cmds # <<>>
               /\ accepted => r.cmds # <<>>
               /\ trace' = Append(trace, StepOn("rename", r.res, r.cmds, WsShape(reply)))
               /\ wsName' = WmApply(wsName, r.cmds, accepted)
               /\ pc' = AfterEngine(r, next).pc
               /\ exit' = AfterEngine(r, next).exit
    /\ UNCHANGED <<cfg, event, sigpc, sigQueue, sigClosed, sigSent, stream, probe>>

FocusRename ==
    /\ RenameStep("focus_rename", After(FocusOrder, "focus_rename"))
    /\ UNCHANGED <<prev, lastFocus, closedSince>>

\* variant: the tracker is left as it was
KeepPrev(p, ev) == p

\* prev = Some(event.container.id) and prev = None
TrackFocus(p, ev) == Some(ev.id)
TrackClose(p, ev) == None

\* if args.autolayout { autolayout(&mut commands) }; prev = Some(event.container.id);
FocusAutolayout ==
    /\ Alive /\ pc = "focus_autolayout"
    /\ \/ /\ ~cfg.autolayout
          /\ trace' = Append(trace, Step("autolayout", "off", <<>>))
          /\ pc' = After(FocusOrder, "focus_autolayout")
          /\ UNCHANGED exit
       \/ /\ cfg.autolayout
          /\ \E reply \in {None} \cup {Some(t) : t \in LoopTrees}, sendOk \in BOOLEAN :
               LET r == Autolayout(reply, sendOk) IN
               /\ sendOk \/ r.cmds # <<>>
               /\ trace' = Append(trace, StepOn("autolayout", r.res, r.cmds, TreeShape(reply)))
               /\ pc' = AfterEngine(r, After(FocusOrder, "focus_autolayout")).pc
               /\ exit' = AfterEngine(r, After(FocusOrder, "focus_autolayout")).exit
    /\ IF exit' = None
       THEN /\ prev' = TrackFocus(prev, event)
            /\ lastFocus' = Some(event.id)
            /\ closedSince' = {}
       ELSE UNCHANGED <<prev, lastFocus, closedSince>>
    /\ UNCHANGED <<cfg, event, wsName,
                   sigpc, sigQueue, sigClosed, sigSent, stream, probe>>

CloseLeave ==
    LeaveStep("close_leave", After(CloseOrder, "close_leave"))

\* if args.workspace_renaming { rename_workspace(..) }; prev = None;
CloseRename ==
    /\ RenameStep("close_rename", After(CloseOrder, "close_rename"))
    /\ IF exit' = None
       THEN /\ prev' = TrackClose(prev, event)
            /\ closedSince' = IF IsSome(lastFocus)
                              THEN closedSince \cup {event.id} ELSE closedSince
       ELSE UNCHANGED <<prev, closedSince>>
    /\ UNCHANGED lastFocus

\* the end of an iteration of the loop: the event is dropped
EndEvent ==
    /\ Alive /\ pc = "event_done"
    /\ pc' = "next_event"
    /\ event' = NoEvent
    /\ trace' = <<>>
    /\ UNCHANGED <<cfg, prev, wsName, lastFocus, closedSince,
                   sigpc, sigQueue, sigClosed, sigSent, exit, stream, probe>>

\* handle.close();
CloseHandle ==
    /\ Alive /\ pc = "close_handle"
    /\ pc' = "join"
    /\ sigClosed' = TRUE
    /\ UNCHANGED <<cfg, prev, event, trace, wsName, lastFocus, closedSince,
                   sigpc, sigQueue, sigSent, exit, stream, probe>>

\* signals_task.await; Ok(())
Join ==
    /\ Alive /\ pc = "join"
    /\ \/ sigpc = "Ended" /\ exit' = Exited(ExitSuccess, "main_ok")
       \/ sigpc = "Dead" /\ exit' = Exited(ExitPanic, "main_panic")
    /\ pc' = "done"
    /\ UNCHANGED <<cfg, prev, event, trace, wsName, lastFocus, closedSince,
                   sigpc, sigQueue, sigClosed, sigSent, stream, probe>>

---------------------------------------------------------------------------
(* The signal task: handle_signals *)

\* the operating system delivers SIGHUP, SIGINT, SIGQUIT or SIGTERM
SignalArrives ==
    /\ Alive /\ ~sigClosed /\ sigQueue < MaxSignals
    /\ sigQueue' = sigQueue + 1
    /\ UNCHANGED <<cfg, pc, prev, event, trace, wsName, lastFocus, closedSince,
                   sigpc, sigClosed, sigSent, exit, stream, probe>>

\* while let Some(signal) = signals.next().await { match signal { ... } }
SigNext ==
    /\ Alive /\ sigpc = "Waiting"
    /\ \/ /\ sigQueue > 0
          /\ sigQueue' = sigQueue - 1
          /\ sigpc' = "ShuttingDown"
       \/ /\ sigClosed
          /\ sigpc' = "Ended"
          /\ UNCHANGED sigQueue
    /\ UNCHANGED <<cfg, pc, prev, event, trace, wsName, lastFocus, closedSince,
                   sigClosed, sigSent, exit, stream, probe>>

\* .unwrap() on an Err panics inside the task: the build either aborts the
\* process or unwinds and drops the task while the process runs on
UnwrapPanics == {[sigpc |-> "Dead", exit |-> Exited(ExitAbort, "abort")],
                 [sigpc |-> "Dead", exit |-> None]}

\* let mut commands = Connection::new().await.unwrap();
SigConnect ==
    /\ Alive /\ sigpc = "ShuttingDown"
    /\ \/ sigpc' = "Connected" /\ UNCHANGED exit
       \/ \E o \in UnwrapPanics : sigpc' = o.sigpc /\ exit' = o.exit
    /\ UNCHANGED <<cfg, pc, prev, event, trace, wsName, lastFocus, closedSince,
                   sigQueue, sigClosed, sigSent, stream, probe>>

\* variant: the task waits for the next signal instead of ending the process
LoopAfterExitHook == [sigpc |-> "Waiting", exit |-> None]

\* exit(0): the process ends, the loop of handle_signals is never re-entered
AfterExitHook == [sigpc |-> "Terminated", exit |-> Exited(ExitSuccess, "signal")]

\* if let Some(exit_cmd) = on_exit { run_command(exit_cmd).await.unwrap(); }
\* the task awaits the reply while main runs on
SigExitHook ==
    /\ Alive /\ sigpc = "Connected"
    /\ \/ /\ cfg.on_exit = None
          /\ sigpc' = "Exiting"
          /\ UNCHANGED <<sigSent, exit>>
       \/ /\ IsSome(cfg.on_exit)
          /\ sigSent' = Append(sigSent, Unwrap(cfg.on_exit))
          /\ \/ sigpc' = "Exiting" /\ UNCHANGED exit
             \/ \E o \in UnwrapPanics : sigpc' = o.sigpc /\ exit' = o.exit
    /\ UNCHANGED <<cfg, pc, prev, event, trace, wsName, lastFocus, closedSince,
                   sigQueue, sigClosed, stream, probe>>

\* variant: the task lets main finish the event it is in before it exits
ExitWaitsForEvent(p) ==
    p \in {"connect", "subscribe", "next_event", "event_done", "close_handle", "join", "done"}

\* exit(0) follows the hook at once, wherever main stands
ExitWaitsFor(p) == TRUE

\* exit(0);
SigExit ==
    /\ Alive /\ sigpc = "Exiting" /\ ExitWaitsFor(pc)
    /\ sigpc' = AfterExitHook.sigpc /\ exit' = AfterExitHook.exit
    /\ UNCHANGED <<cfg, pc, prev, event, trace, wsName, lastFocus, closedSince,
                   sigQueue, sigClosed, sigSent, stream, probe>>

---------------------------------------------------------------------------
(* The program *)

NoProbe == [kind |-> "none"]

Init ==
    /\ cfg \in Configs
    /\ pc = "connect"
    /\ prev = None
    /\ event = NoEvent
    /\ trace = <<>>
    /\ wsName = <<"3">>
    /\ lastFocus = None
    /\ closedSince = {}
    /\ sigpc = "Waiting"
    /\ sigQueue = 0
    /\ sigClosed = FALSE
    /\ sigSent = <<>>
    /\ exit = None
    /\ stream = "none"
    /\ probe = NoProbe

Next ==
    \/ Connect
    \/ Subscribe
    \/ NextEvent
    \/ FocusLeave
    \/ FocusEnter
    \/ FocusRename
    \/ FocusAutolayout
    \/ CloseLeave
    \/ CloseRename
    \/ EndEvent
    \/ CloseHandle
    \/ Join
    \/ SignalArrives
    \/ SigNext
    \/ SigConnect
    \/ SigExitHook
    \/ SigExit

Spec == Init /\ [][Next]_vars

---------------------------------------------------------------------------
(* Direct calls of the engines *)

\* calls of rename_workspace in a row on one workspace
MaxCalls == 2

\* the main task and the signal task stand still during a direct call
Idle ==
    /\ cfg = [autolayout |-> TRUE, workspace_renaming |-> TRUE,
              on_window_focus |-> None, on_window_focus_leave |-> None,
              on_exit |-> None]
    /\ pc = "call"
    /\ prev = None
    /\ event = NoEvent
    /\ trace = <<>>
    /\ wsName = <<>>
    /\ lastFocus = None
    /\ closedSince = {}
    /\ sigpc = "Waiting"
    /\ sigQueue = 0
    /\ sigClosed = FALSE
    /\ sigSent = <<>>
    /\ exit = None
    /\ stream = "open"

Layouts == {"splith", "splitv", "stacked", "tabbed", "output"}

Trees ==
    {MkTree(d, f, ty, pct, w, h, att, onf, lay) :
        d \in 1..MaxDepth, f \in 0..MaxDepth, ty \in {"con", "floating_con"},
        pct \in {None, Some(50), Some(100), Some(150)},
        w \in 1..MaxDim, h \in 1..MaxDim,
        att \in {"nodes", "floating_nodes"}, onf \in BOOLEAN, lay \in Layouts}

InitAutolayout ==
    /\ Idle
    /\ \E t \in Trees : probe = [kind |-> "autolayout", tree |-> t, out |-> None]

\* autolayout(&mut commands) on the tree of the call
AutolayoutCall ==
    /\ probe.kind = "autolayout" /\ probe.out = None
    /\ \E sendOk \in BOOLEAN :
         LET r == Autolayout(Some(probe.tree), sendOk) IN
         /\ sendOk \/ r.cmds # <<>>
         /\ probe' = [probe EXCEPT !.out = Some(r)]
    /\ UNCHANGED mainVars

NextAutolayout == AutolayoutCall

SpecAutolayout == InitAutolayout /\ [][NextAutolayout]_vars

NameChars == {"3", ":", "a"}
ProbeNames == SeqsUpTo(NameChars, MaxNameLen)
ProbeApps == SeqsUpTo({"-", "A"}, MaxAppLen)
             \cup {<<"a", "-", "b">>, <<"-", "B", ":", "a", "-">>,
                   <<"-", CapNoLower>>}
ProbeEvents ==
    [change : {"Focus"}, id : {FirstId},
     app_id : {None} \cup {Some(a) : a \in ProbeApps},
     window_properties : {None, Some([class |-> None]),
                          Some([class |-> Some(<<"-", "B", "-", "b">>)])}]

InitRename ==
    /\ Idle
    /\ \E nm \in ProbeNames, f \in {<<>>, <<FirstId>>}, e \in ProbeEvents :
         probe = [kind |-> "rename", name0 |-> nm, name |-> nm, focus |-> f,
                  ev |-> e, n |-> 0, res |-> "none",
                  first |-> <<>>, last |-> <<>>]

\* rename_workspace(&event, &mut commands) on the workspace of the call, which
\* the window manager then renames or not
RenameCall ==
    /\ probe.kind = "rename" /\ probe.n < MaxCalls
    /\ \E sendOk \in BOOLEAN, accepted \in BOOLEAN :
         LET reply == Some(<<OtherWs, [name |-> probe.name, focused |-> TRUE,
                                       focus |-> probe.focus]>>)
             r == RenameWorkspace(probe.ev, reply, sendOk)
         IN /\ sendOk \/ r.cmds # <<>>
            /\ accepted => r.cmds # <<>>
            /\ probe' = [probe EXCEPT !.n = @ + 1,
                                      !.res = r.res,
                                      !.first = IF probe.n = 0 THEN r.cmds ELSE @,
                                      !.last = r.cmds,
                                      !.name = WmApply(probe.name, r.cmds, accepted)]
    /\ UNCHANGED mainVars

NextRename == RenameCall

SpecRename == InitRename /\ [][NextRename]_vars

---------------------------------------------------------------------------
(* Properties of the event loop *)

InEvent(change) == event.change = change

\* the commands main has sent for the current event, in order
RECURSIVE CmdsOf(_)
CmdsOf(tr) == IF tr = <<>> THEN <<>> ELSE Head(tr).cmds \o CmdsOf(Tail(tr))

\* the leave hook the configuration and a tracker value call for
ExpectedLeave(tracker) ==
    IF IsSome(cfg.on_window_focus_leave) /\ IsSome(tracker)
    THEN <<LeaveHookCmd(Unwrap(tracker), Unwrap(cfg.on_window_focus_leave))>>
    ELSE <<>>

FocusStepNames == <<"leave", "enter", "rename", "autolayout">>

IsRenameCmd(text) == IsPrefix(StrRename, text)

\* C1: a Focus event runs its steps in the order leave hook (scoped to the
\* tracker's previous id, only with a leave hook configured and an id in the
\* tracker), enter hook (unscoped, if configured), rename (if enabled),
\* autolayout split (if enabled), and the tracker is written only after all
\* of them.
C1_FocusOrder ==
    InEvent("Focus") =>
        /\ Len(trace) <= 4
        /\ \A i \in 1..Len(trace) : trace[i].step = FocusStepNames[i]
        /\ Len(trace) >= 1 => trace[1].cmds = ExpectedLeave(event.prevBefore)
        /\ Len(trace) >= 2 => trace[2].cmds = cfg.on_window_focus
        /\ Len(trace) >= 3 =>
              /\ Len(trace[3].cmds) <= 1
              /\ trace[3].cmds # <<>> =>
                    cfg.workspace_renaming /\ IsRenameCmd(trace[3].cmds[1])
        /\ Len(trace) >= 4 =>
              /\ Len(trace[4].cmds) <= 1
              /\ trace[4].cmds # <<>> =>
                    cfg.autolayout /\ trace[4].cmds[1] \in {StrSplitV, StrSplitH}
        /\ Len(trace) < 4 => prev = event.prevBefore
        /\ pc = "event_done" => Len(trace) = 4

\* a Focus event that sent all four commands, the leave hook first
C1_Witness ==
    /\ InEvent("Focus") /\ pc = "event_done" /\ Len(trace) = 4
    /\ \A i \in 1..4 : Len(trace[i].cmds) = 1
    /\ Len(CmdsOf(trace)) = 4
    /\ CmdsOf(trace)[1] = LeaveHookCmd(Unwrap(event.prevBefore), LeaveTemplate)
    /\ prev = Some(event.id) /\ prev # event.prevBefore

\* the leave step of the current event, if it has run
LeaveSent == IF trace # <<>> /\ trace[1].step = "leave" THEN trace[1].cmds ELSE <<>>

\* C2: the leave hook sent for a Focus or Close event is scoped to the value
\* the tracker held when the event was read; that can be the container the
\* event itself carries (a Close event of the focused container, a Focus
\* event repeated for the same container).
C2_LeaveScopedToTracker ==
    (InEvent("Focus") \/ InEvent("Close")) /\ LeaveSent # <<>> =>
        /\ IsSome(event.prevBefore)
        /\ LeaveSent = <<LeaveHookCmd(Unwrap(event.prevBefore), LeaveTemplate)>>

\* a Close event whose leave hook is scoped to the container it carries
C2_Witness ==
    /\ InEvent("Close") /\ LeaveSent # <<>>
    /\ event.prevBefore = Some(event.id)
    /\ LeaveSent = <<LeaveHookCmd(event.id, LeaveTemplate)>>

\* C2 as first stated: the leave hook is scoped to the tracker value and
\* never to the container carried by the event.
C2_NeverEventContainer ==
    (InEvent("Focus") \/ InEvent("Close")) /\ LeaveSent # <<>> =>
        /\ LeaveSent = <<LeaveHookCmd(Unwrap(event.prevBefore), LeaveTemplate)>>
        /\ LeaveSent # <<LeaveHookCmd(event.id, LeaveTemplate)>>

\* C3: once a Close event is handled the tracker is None, once a Focus event
\* for a container is handled the tracker is Some of its id, whatever the
\* flags and whatever rename and autolayout returned.
C3_TrackerAfterEvent ==
    pc = "event_done" =>
        /\ InEvent("Close") => prev = None
        /\ InEvent("Focus") => prev = Some(event.id)

\* a Focus event handled with both engines failing, the tracker moved
C3_Witness ==
    /\ pc = "event_done" /\ InEvent("Focus")
    /\ trace[3].res = "err" /\ trace[4].res = "err"
    /\ prev = Some(event.id) /\ event.prevBefore # prev

\* C4: between events the tracker is Some(id) exactly when the latest Focus
\* event was for id and no Close event for that same id was handled since.
C4_TrackerIffFocusedNotClosed ==
    pc = "next_event" =>
        \A id \in ConIds :
            prev = Some(id) <=> (lastFocus = Some(id) /\ id \notin closedSince)

\* the step whose failure ended main, if main ended inside an event
FailedStep == IF trace # <<>> THEN trace[Len(trace)] ELSE Step("none", "ok", <<>>)

\* C5: a failure of the rename or of autolayout never ends the loop and never
\* skips the rest of the event: after a failed rename of a Focus event main
\* stands at the autolayout step, after the last step the tracker is written
\* and main stands at the end of the iteration; main ends with an error only
\* through a connection, the stream or a hook.
C5_EngineErrorsCaught ==
    /\ (InEvent("Focus") /\ Len(trace) = 3 /\ trace[3].res = "err")
          => pc = "focus_autolayout"
    /\ (InEvent("Focus") /\ Len(trace) = 4 /\ "err" \in {trace[3].res, trace[4].res})
          => pc = "event_done" /\ prev = Some(event.id)
    /\ (InEvent("Close") /\ Len(trace) = 2 /\ trace[2].res = "err")
          => pc = "event_done" /\ prev = None
    /\ (IsSome(exit) /\ Unwrap(exit).by = "main_err")
          => \/ stream \in {"connect_failed", "failed"}
             \/ FailedStep.step \in {"leave", "enter"} /\ FailedStep.res = "err"

\* a Focus event whose rename failed and whose autolayout still sent a split
C5_Witness ==
    /\ InEvent("Focus") /\ pc = "event_done" /\ Len(trace) = 4
    /\ trace[3].res = "err"
    /\ trace[4].res = "ok" /\ trace[4].cmds # <<>>
    /\ prev = Some(event.id)

ByMain == {"main_ok", "main_err", "main_panic"}

C7_ExitHookOnce ==
    /\ Len(sigSent) <= 1
    /\ sigSent # <<>> => cfg.on_exit = Some(sigSent[1])
    /\ cfg.on_exit = None => sigSent = <<>>
    /\ (IsSome(exit) /\ Unwrap(exit).by = "signal") =>
          /\ Unwrap(exit).status = 0
          /\ sigSent = cfg.on_exit
    /\ \A i \in 1..Len(trace) :
          \A j \in 1..Len(trace[i].cmds) : trace[i].cmds[j] # ExitTemplate

\* the hook sent once and the process ended with another signal still queued
C7_Witness ==
    /\ IsSome(exit) /\ Unwrap(exit).by = "signal" /\ Unwrap(exit).status = 0
    /\ sigSent = <<ExitTemplate>>
    /\ sigQueue > 0

\* C8: a signal task that has taken a signal stays in ShuttingDown until the
\* process is terminated: it is waiting, shutting down or ended with its
\* stream, or the process has ended.
C8_ShuttingDownTerminates ==
    sigpc \in {"Waiting", "ShuttingDown", "Connected", "Exiting", "Ended"} \/ IsSome(exit)

---------------------------------------------------------------------------
(* Properties of the engines *)

\* the index of the focused node of a chain, 0 without one
FocusedIndex(tree) ==
    IF \E i \in 1..Len(tree) : tree[i].focused
    THEN CHOOSE i \in 1..Len(tree) : tree[i].focused ELSE 0

Found(tree) ==
    /\ IsSome(FindFocusedAsRef(tree, 1, "focused"))
    /\ IsSome(FindFocusedAsRef(tree, 1, "parent"))

\* C9: with the focused node and its parent found, autolayout sends nothing
\* when the node is floating, its percent exceeds 1.0 or the parent is
\* stacked or tabbed; otherwise it sends exactly one split command, split v
\* if and only if the height is strictly greater than the width.
C9_AutolayoutDecision ==
    (probe.kind = "autolayout" /\ IsSome(probe.out) /\ Found(probe.tree)) =>
        LET f == probe.tree[FocusedIndex(probe.tree)]
            p == probe.tree[FocusedIndex(probe.tree) - 1]
            quiet == \/ f.node_type = "floating_con"
                     \/ IsSome(f.percent) /\ f.percent[1] > 100
                     \/ p.layout \in {"stacked", "tabbed"}
        IN Unwrap(probe.out).cmds =
              IF quiet THEN <<>>
              ELSE IF f.rect.height > f.rect.width
                   THEN <<StrSplitV>> ELSE <<StrSplitH>>

\* a square focused node: split h is sent
C9_Witness ==
    /\ probe.kind = "autolayout" /\ IsSome(probe.out) /\ Found(probe.tree)
    /\ LET f == probe.tree[FocusedIndex(probe.tree)] IN
          /\ f.rect.height = f.rect.width
          /\ f.percent = Some(100)
    /\ Unwrap(probe.out).cmds = <<StrSplitH>>

\* C10: a second call of rename_workspace on the workspace as the first call
\* left it, with the same event and focus list, sends the same command as
\* the first.
C10_RenameIdempotent ==
    (probe.kind = "rename" /\ probe.n >= 2) => probe.last = probe.first

\* two calls, the first of which renamed a workspace whose name held a colon
C10_Witness ==
    /\ probe.kind = "rename" /\ probe.n = 2
    /\ probe.first # <<>> /\ probe.last = probe.first
    /\ probe.name # probe.name0
    /\ \E i \in 1..Len(probe.name0) : probe.name0[i] = ":"
    /\ IsSome(AppName(probe.ev))
    /\ probe.focus # <<>>

---------------------------------------------------------------------------
(* Properties of rename_workspace *)

\* the place of the first colon of a name, one past its end without one
FirstColon(name) ==
    IF \E i \in 1..Len(name) : name[i] = ":"
    THEN CHOOSE i \in 1..Len(name) :
            name[i] = ":" /\ \A j \in 1..(i-1) : name[j] # ":"
    ELSE Len(name) + 1

\* the part of a name before its first colon
BeforeColon(name) == SubSeq(name, 1, FirstColon(name) - 1)

\* the identity of the container of an event: its app_id, else the class
\* of its legacy window properties, else none
Identity(ev) ==
    CASE ev.app_id # None -> ev.app_id
      [] ev.app_id = None /\ ev.window_properties = None -> None
      [] OTHER -> ev.window_properties[1].class

\* the first call of the probe was made on a workspace without windows
FirstCallEmpty == probe.kind = "rename" /\ probe.n >= 1 /\ probe.focus = <<>>
\* the first call of the probe was made on a workspace with windows
FirstCallWindows == probe.kind = "rename" /\ probe.n >= 1 /\ probe.focus # <<>>

\* C11: called on a focused workspace whose focus list is empty,
\* rename_workspace sends exactly "rename workspace to <ws_num>", ws_num
\* being the name up to its first colon and the whole name without a colon,
\* whatever identity the event carries.
C11_EmptyWorkspaceRename ==
    FirstCallEmpty =>
        /\ probe.first = <<StrRename \o BeforeColon(probe.name0)>>
        /\ (\A i \in 1..Len(probe.name0) : probe.name0[i] # ":")
              => probe.first = <<StrRename \o probe.name0>>

\* an empty workspace named "3:a" and an event with an app_id: "3" is sent
C11_Witness ==
    /\ FirstCallEmpty
    /\ probe.name0 = <<"3", ":", "a">>
    /\ IsSome(probe.ev.app_id)
    /\ probe.first = <<StrRename \o <<"3">>>>

\* the text the first call of the probe put after "<ws_num>: "
FirstSuffix ==
    SubSeq(probe.first[1], Len(StrRename) + FirstColon(probe.name0) + 2,
           Len(probe.first[1]))

\* an identity without the hyphens it starts and ends with
Core(a) ==
    IF \A i \in 1..Len(a) : a[i] = "-" THEN <<>>
    ELSE LET inner == {i \in 1..Len(a) : a[i] # "-"}
             lo == CHOOSE i \in inner : \A j \in inner : i <= j
             hi == CHOOSE i \in inner : \A j \in inner : j <= i
         IN SubSeq(a, lo, hi)

\* C12: called on a focused workspace with a non-empty focus list,
\* rename_workspace takes the app_id of the event, else the class of its
\* window properties, and sends exactly "rename workspace to <ws_num>:
\* <normalized identity>"; with neither it sends nothing and returns Ok.
C12_IdentityChoice ==
    FirstCallWindows =>
        IF IsSome(Identity(probe.ev))
        THEN probe.first = <<StrRename \o BeforeColon(probe.name0) \o <<":", " ">>
                              \o Normalize(Unwrap(Identity(probe.ev)))>>
        ELSE probe.first = <<>> /\ probe.res = "ok"

\* an event with both an app_id and a class, renamed after the app_id
C12_Witness ==
    /\ FirstCallWindows
    /\ probe.name0 = <<"3">>
    /\ probe.ev.app_id = Some(<<"-", "A">>)
    /\ probe.ev.window_properties = Some([class |-> Some(<<"-", "B", "-", "b">>)])
    /\ probe.first = <<StrRename \o <<"3", ":", " ", "a">>>>

\* the suffix of the first call is the identity without the hyphens at its
\* ends, each character lower-cased
SuffixIsLoweredCore ==
    LET core == Core(Unwrap(Identity(probe.ev))) IN
    /\ probe.first # <<>>
    /\ Len(FirstSuffix) = Len(core)
    /\ \A i \in 1..Len(core) : FirstSuffix[i] = LowerChar(core[i])
    /\ FirstSuffix # <<>> =>
          FirstSuffix[1] # "-" /\ FirstSuffix[Len(FirstSuffix)] # "-"

\* C13: the suffix put in the workspace name has no hyphen at its start or
\* end and no character that lower-casing changes; it is the identity with
\* all leading and trailing hyphens removed, then lower-cased, interior
\* hyphens kept.
C13_NormalizedSuffix ==
    (FirstCallWindows /\ IsSome(Identity(probe.ev))) =>
        /\ SuffixIsLoweredCore
        /\ \A i \in 1..Len(FirstSuffix) : LowerChar(FirstSuffix[i]) = FirstSuffix[i]

\* the class "-B-b" gives the suffix "b-b"
C13_Witness ==
    /\ FirstCallWindows
    /\ probe.ev.app_id = None
    /\ probe.ev.window_properties = Some([class |-> Some(<<"-", "B", "-", "b">>)])
    /\ FirstSuffix = <<"b", "-", "b">>

\* C13 as first stated: the suffix holds no upper-case character at all.
C13_NoUpperCase ==
    (FirstCallWindows /\ IsSome(Identity(probe.ev))) =>
        /\ SuffixIsLoweredCore
        /\ \A i \in 1..Len(FirstSuffix) : ~IsUpper(FirstSuffix[i])

---------------------------------------------------------------------------
(* Properties of the event loop: Close events, ignored events, retries *)

CloseStepNames == <<"leave", "rename">>

\* C14: a Close event sends at most the leave hook scoped to the id the
\* tracker held (only with a leave hook configured and an id in the tracker)
\* and then the workspace rename (only with renaming enabled), in that order;
\* the tracker is None once both steps are done; neither the enter hook nor
\* a split command is sent for a Close event.
C14_CloseOrder ==
    InEvent("Close") =>
        /\ Len(trace) <= 2
        /\ \A i \in 1..Len(trace) : trace[i].step = CloseStepNames[i]
        /\ Len(trace) >= 1 => trace[1].cmds = ExpectedLeave(event.prevBefore)
        /\ Len(trace) >= 2 =>
              /\ Len(trace[2].cmds) <= 1
              /\ trace[2].cmds # <<>> =>
                    cfg.workspace_renaming /\ IsRenameCmd(trace[2].cmds[1])
        /\ \A k \in 1..Len(CmdsOf(trace)) :
              CmdsOf(trace)[k] \notin {FocusTemplate, StrSplitV, StrSplitH}
        /\ Len(trace) < 2 => prev = event.prevBefore
        /\ pc = "event_done" => Len(trace) = 2 /\ prev = None

\* a Close event that sent the leave hook and then the rename, with every
\* hook and engine configured
C14_Witness ==
    /\ InEvent("Close") /\ pc = "event_done" /\ Len(trace) = 2
    /\ IsSome(cfg.on_window_focus) /\ cfg.autolayout
    /\ IsSome(event.prevBefore)
    /\ trace[1].cmds = <<LeaveHookCmd(Unwrap(event.prevBefore), LeaveTemplate)>>
    /\ Len(trace[2].cmds) = 1 /\ IsRenameCmd(trace[2].cmds[1])
    /\ prev = None

\* C15: an event whose change is neither Focus nor Close sends no command
\* and leaves the tracker as it was when the event was read; a tracker that
\* held the container focused last still holds it, so the leave hook of a
\* later Focus event is scoped to that container.
C15_OtherEventsIgnored ==
    InEvent("Other") =>
        /\ trace = <<>>
        /\ pc = "event_done"
        /\ prev = event.prevBefore
        /\ (IsSome(lastFocus) /\ closedSince = {}) => prev = lastFocus
        /\ ExpectedLeave(prev) = ExpectedLeave(event.prevBefore)

\* an ignored event read while the tracker holds the focused container and
\* a leave hook is configured
C15_Witness ==
    /\ InEvent("Other") /\ pc = "event_done"
    /\ IsSome(cfg.on_window_focus_leave) /\ cfg.workspace_renaming /\ cfg.autolayout
    /\ IsSome(lastFocus) /\ prev = lastFocus
    /\ ExpectedLeave(prev) = <<LeaveHookCmd(Unwrap(lastFocus), LeaveTemplate)>>

\* C16: nothing is retried: within one event no step runs twice and no
\* step sends more than one command, so a Focus event sends at most one
\* leave hook, one enter hook, one rename and one split, a Close event at
\* most one leave hook and one rename; a step that failed is the last of
\* its kind in the event, and after a failed hook no step runs at all.
C16_NoRetry ==
    /\ \A i, j \in 1..Len(trace) : i < j => trace[i].step # trace[j].step
    /\ \A i \in 1..Len(trace) : Len(trace[i].cmds) <= 1
    /\ \A i, j \in 1..Len(CmdsOf(trace)) :
          i < j => CmdsOf(trace)[i] # CmdsOf(trace)[j]
    /\ InEvent("Focus") => Len(CmdsOf(trace)) <= 4
    /\ InEvent("Close") => Len(CmdsOf(trace)) <= 2
    /\ \A i \in 1..Len(trace) :
          (trace[i].step \in {"leave", "enter"} /\ trace[i].res = "err")
              => i = Len(trace)

\* a Focus event whose rename command failed: one rename in the trace, the
\* split sent after it
C16_Witness ==
    /\ InEvent("Focus") /\ pc = "event_done" /\ Len(trace) = 4
    /\ trace[3].res = "err" /\ Len(trace[3].cmds) = 1
    /\ trace[4].res = "err" /\ Len(trace[4].cmds) = 1
    /\ Len(CmdsOf(trace)) = 4

\* the answers of get_tree in which no focused node or no parent is found
NoFocusedOrNoParent == {"no_focused", "root_focused", "floating_child"}

\* C17: when the tree holds no focused node, or the focused node is the
\* root or is in no node's `nodes`, autolayout sends no split command and
\* returns an error; main does not end on it: the tracker is written with
\* the container of the event and main stands at the end of the iteration,
\* from where it reads the next event.
C17_NoFocusedNoParent ==
    (InEvent("Focus") /\ Len(trace) = 4 /\ trace[4].saw \in NoFocusedOrNoParent) =>
        /\ trace[4].step = "autolayout"
        /\ trace[4].cmds = <<>>
        /\ trace[4].res = "err"
        /\ pc = "event_done"
        /\ prev = Some(event.id)
        /\ IsSome(exit) => Unwrap(exit).by \notin ByMain

\* autolayout found the focused node only in floating_nodes: the event ends
\* with the tracker written and main still running
C17_Witness ==
    /\ InEvent("Focus") /\ Len(trace) = 4 /\ trace[4].saw = "floating_child"
    /\ trace[4].res = "err" /\ trace[4].cmds = <<>>
    /\ pc = "event_done" /\ Alive
    /\ prev = Some(event.id) /\ prev # event.prevBefore

---------------------------------------------------------------------------
(* Properties of the shutdown *)

\* main sent a command for the current event after the exit hook was sent
SentAfterHook == \E i \in 1..Len(trace) : trace[i].afterHook

\* C18: the exit hook is the last command the signal task sends and
\* exit(0) follows it without waiting for main, wherever main stands; main
\* is not stopped meanwhile: a command of main that follows the hook is
\* sent while the signal task is between the hook and exit(0), or after it
\* panicked on the hook.
C18_ExitFollowsHook ==
    /\ Len(sigSent) <= 1
    /\ (Alive /\ sigpc = "Exiting") => ENABLED SigExit
    /\ SentAfterHook => sigpc \in {"Exiting", "Terminated", "Dead"}
    /\ sigpc = "Terminated" => IsSome(exit) /\ Unwrap(exit).by = "signal"

\* the hook was sent, main then sent a command of the event it was in, and
\* the process was ended by exit(0)
C18_Witness ==
    /\ sigSent = <<ExitTemplate>>
    /\ SentAfterHook
    /\ sigpc = "Terminated"
    /\ IsSome(exit) /\ Unwrap(exit).by = "signal" /\ Unwrap(exit).status = 0

\* C18 as first stated: once the signal task has sent the exit hook, and
\* does not panic on it, main sends no further command.
C18_HookIsLast ==
    sigpc # "Dead" => ~SentAfterHook

---------------------------------------------------------------------------
(* Properties of the event loop: failed hooks, Close events and names *)

\* C19: when the sending of the leave hook or of the enter hook fails, main
\* ends inside that event with the error: the failed step is the last of
\* the event, the tracker holds the value the event was read with, main
\* stands at its end and the process has ended with a non-zero status, so
\* no further event is read.
C19_HookFailureEndsLoop ==
    \A i \in 1..Len(trace) :
        (trace[i].step \in {"leave", "enter"} /\ trace[i].res = "err") =>
            /\ i = Len(trace)
            /\ pc = "done"
            /\ prev = event.prevBefore
            /\ IsSome(exit)
            /\ Unwrap(exit).by = "main_err" /\ Unwrap(exit).status # 0

\* the enter hook of a Focus event failed with rename and autolayout
\* enabled: two steps in the trace, the tracker still the former container
C19_Witness ==
    /\ InEvent("Focus") /\ Len(trace) = 2
    /\ trace[1].res = "ok" /\ trace[2].step = "enter" /\ trace[2].res = "err"
    /\ cfg.workspace_renaming /\ cfg.autolayout
    /\ IsSome(event.prevBefore) /\ prev = event.prevBefore /\ prev # Some(event.id)
    /\ pc = "done" /\ IsSome(exit)

\* the suffix the identity of a container of the loop gives: "a" for the
\* app_id "-A" of the first, "b" for the class "B" of the second
SuffixOf(id) == IF id = FirstId THEN Some(<<"a">>)
                ELSE IF id = FirstId + 1 THEN Some(<<"b">>)
                ELSE None

\* the rename step of a Close event that found windows on the focused
\* workspace sends the name made of the identity of the closed container
CloseRenamesAfterClosed ==
    (InEvent("Close") /\ Len(trace) = 2 /\ trace[2].saw = "windows") =>
        /\ cfg.workspace_renaming
        /\ trace[2].cmds =
              IF IsSome(SuffixOf(event.id))
              THEN <<StrRename \o <<"3", ":", " ">> \o Unwrap(SuffixOf(event.id))>>
              ELSE <<>>

====
